---- MODULE Spec2Model ----
(***************************************************************************)
(* Model of two programs of the repository:                                *)
(*   - Lab 3/lab3.py           the library inventory manager (Book,        *)
(*                             LibraryInventory, the menu loop of main);   *)
(*   - Lab 2/labassignment2.py the GradeBook analyzer (manual_input,       *)
(*                             load_csv, the statistics, assign_grade,     *)
(*                             export_to_csv, analyze_and_report, main).   *)
(* Text is a sequence of one-character strings, so that strip(), float()   *)
(* and str() are computed and not assumed.                                 *)
(***************************************************************************)
EXTENDS Integers, Sequences, FiniteSets, TLC

VARIABLES
    \* ---- Lab 3: library inventory ----
    books,        \* LibraryInventory.books: sequence of Book objects
    file,         \* books.json on disk: absent, a JSON array, or unparsable
    running,      \* the while True loop of main has not reached break
    last,         \* the lines read by menu()/input() in the last iteration
    out,          \* the last line main printed
    lastLog,      \* the last record written to library.log
    saveCalled,   \* the last iteration called save_data
    writeFailed,  \* some open()/json.dump() of save_data has failed so far
    \* ---- Lab 2: GradeBook analyzer ----
    marks,        \* main's marks: the held batch, a dict name -> score
    grades,       \* main's grades: a dict name -> grade label
    csv,          \* the CSV file on disk that choices 2 and 3 name
    report,       \* what the last analyze_and_report call computed and printed
    gbRunning,    \* main's loop has neither reached break nor died of an exception
    gbLast,       \* the lines read from the console in the last step
    gbOut,        \* the last line printed outside analyze_and_report
    mpc,          \* "menu", or the prompt manual_input is waiting at
    miMarks,      \* manual_input's local marks
    miName        \* manual_input's local name

libVars == <<books, file, running, last, out, lastLog, saveCalled, writeFailed>>
gbVars == <<marks, grades, csv, report, gbRunning, gbLast, gbOut, mpc, miMarks, miName>>

vars == <<libVars, gbVars>>

(***************************************************************************)
(* Bounds of the model.                                                    *)
(***************************************************************************)
MaxBooks == 3          \* add_book is not offered beyond this many books
MaxInitBooks == 1      \* books.json holds at most this many records at start
MaxRows == 3           \* the CSV file has at most this many lines after the first

(***************************************************************************)
(* Lab 2: text.  A str is a sequence of one-character strings.             *)
(***************************************************************************)
DigitChars == <<"0", "1", "2", "3", "4", "5", "6", "7", "8", "9">>

IsDigit(c) == \E k \in 1..10 : DigitChars[k] = c
DigitVal(c) == (CHOOSE k \in 1..10 : DigitChars[k] = c) - 1

\* str.strip(): leading and trailing blanks removed
RECURSIVE LStrip(_)
LStrip(s) == IF s # <<>> /\ Head(s) = " " THEN LStrip(Tail(s)) ELSE s

RECURSIVE RStrip(_)
RStrip(s) ==
    IF s # <<>> /\ s[Len(s)] = " " THEN RStrip(SubSeq(s, 1, Len(s) - 1)) ELSE s

Strip(s) == RStrip(LStrip(s))

(***************************************************************************)
(* Lab 2: numbers.  A Python number is NaN or the exact value n/d; t is    *)
(* its Python type.  Marks are integer-valued (d = 1), where float         *)
(* addition is exact; a mean or a median is a quotient of such a sum.      *)
(***************************************************************************)
NaN == [t |-> "nan", n |-> 0, d |-> 1]
PyInt(v) == [t |-> "int", n |-> v, d |-> 1]
PyFloat(v) == [t |-> "float", n |-> v, d |-> 1]

IsNaN(x) == x.t = "nan"

\* the comparison operators of float: every comparison with NaN is False
Lt(x, y) == ~IsNaN(x) /\ ~IsNaN(y) /\ x.n * y.d < y.n * x.d
Gt(x, y) == ~IsNaN(x) /\ ~IsNaN(y) /\ x.n * y.d > y.n * x.d
Le(x, y) == ~IsNaN(x) /\ ~IsNaN(y) /\ x.n * y.d <= y.n * x.d
Ge(x, y) == ~IsNaN(x) /\ ~IsNaN(y) /\ x.n * y.d >= y.n * x.d
NumEq(x, y) == ~IsNaN(x) /\ ~IsNaN(y) /\ x.n * y.d = y.n * x.d

\* x + y: NaN propagates, int + int is an int, anything else a float
NumAdd(x, y) ==
    IF IsNaN(x) \/ IsNaN(y) THEN NaN
    ELSE [t |-> IF x.t = "int" /\ y.t = "int" THEN "int" ELSE "float",
          n |-> x.n * y.d + y.n * x.d, d |-> x.d * y.d]

\* x / k for an int k > 0: true division, always a float
NumDiv(x, k) ==
    IF IsNaN(x) THEN NaN ELSE [t |-> "float", n |-> x.n, d |-> x.d * k]

\* the digits of a natural number
RECURSIVE NatText(_)
NatText(v) ==
    IF v < 10 THEN <<DigitChars[v + 1]>>
    ELSE NatText(v \div 10) \o <<DigitChars[(v % 10) + 1]>>

\* str(x) as csv.writer writes a mark: "78" for an int, "78.0" for a float
\* with an integer value, "nan" for NaN
NumText(x) ==
    IF IsNaN(x) THEN <<"n", "a", "n">>
    ELSE (IF x.n < 0 THEN <<"-">> ELSE <<>>)
         \o NatText(IF x.n < 0 THEN -x.n ELSE x.n)
         \o (IF x.t = "float" THEN <<".", "0">> ELSE <<>>)

RECURSIVE DigitsVal(_, _)
DigitsVal(s, acc) ==
    IF s = <<>> THEN acc ELSE DigitsVal(Tail(s), 10 * acc + DigitVal(Head(s)))

ValueError == [ok |-> FALSE, val |-> NaN]

\* float(text) on the texts of the model: blanks around, an optional sign,
\* then "nan", or digits with an optional "." and zeros.  Anything else is
\* a ValueError.
float(text) ==
    LET s == Strip(text)
        neg == s # <<>> /\ Head(s) = "-"
        u == IF s # <<>> /\ Head(s) \in {"-", "+"} THEN Tail(s) ELSE s
        dot == IF \E k \in 1..Len(u) : u[k] = "."
               THEN CHOOSE k \in 1..Len(u) : u[k] = "." /\ \A j \in 1..(k - 1) : u[j] # "."
               ELSE Len(u) + 1
        ip == SubSeq(u, 1, dot - 1)
        fp == SubSeq(u, dot + 1, Len(u))
    IN  IF u = <<"n", "a", "n">> THEN [ok |-> TRUE, val |-> NaN]
        ELSE IF /\ ip # <<>>
                /\ \A k \in 1..Len(ip) : IsDigit(ip[k])
                /\ \A k \in 1..Len(fp) : fp[k] = "0"
        THEN [ok |-> TRUE,
              val |-> PyFloat(IF neg THEN -DigitsVal(ip, 0) ELSE DigitsVal(ip, 0))]
        ELSE ValueError

(***************************************************************************)
(* Lab 2: dict.  A dict is the sequence of its (key, value) items in       *)
(* insertion order; assigning to a key it has keeps the key's position.    *)
(***************************************************************************)
EmptyDict == <<>>

Has(dict, k) == \E i \in 1..Len(dict) : dict[i][1] = k

Get(dict, k) == dict[CHOOSE i \in 1..Len(dict) : dict[i][1] = k][2]

Put(dict, k, v) ==
    IF Has(dict, k)
    THEN [i \in 1..Len(dict) |-> IF dict[i][1] = k THEN <<k, v>> ELSE dict[i]]
    ELSE Append(dict, <<k, v>>)

Keys(dict) == [i \in 1..Len(dict) |-> dict[i][1]]
Values(dict) == [i \in 1..Len(dict) |-> dict[i][2]]

(***************************************************************************)
(* Lab 2: load_csv                                                         *)
(***************************************************************************)
\* csv.reader on one line without quotes: the fields between the commas;
\* an empty line is the empty row
RECURSIVE SplitFrom(_, _)
SplitFrom(line, field) ==
    IF line = <<>> THEN <<field>>
    ELSE IF Head(line) = "," THEN <<field>> \o SplitFrom(Tail(line), <<>>)
    ELSE SplitFrom(Tail(line), Append(field, Head(line)))

CsvRow(line) == IF line = <<>> THEN <<>> ELSE SplitFrom(line, <<>>)

NoFile == [kind |-> "absent", lines |-> <<>>]
TextFile(lines) == [kind |-> "text", lines |-> lines]

\* the loop of load_csv with "break" where the code has "continue"
RECURSIVE LoadRowsBreaks(_, _, _)
LoadRowsBreaks(lines, i, ms) ==
    IF i > Len(lines) THEN ms
    ELSE LET row == CsvRow(lines[i])
         IN  IF Len(row) # 2 THEN ms
             ELSE LET name == Strip(row[1])
                      score == float(Strip(row[2]))
                  IN  IF ~score.ok THEN ms
                      ELSE LoadRowsBreaks(lines, i + 1, Put(ms, name, score.val))

\* the "for row in reader" loop of load_csv from line i on
RECURSIVE LoadRows(_, _, _)
LoadRows(lines, i, ms) ==
    IF i > Len(lines) THEN ms
    ELSE LET row == CsvRow(lines[i])
         IN  IF Len(row) # 2 THEN LoadRows(lines, i + 1, ms)
             ELSE LET name == Strip(row[1])
                      score == float(Strip(row[2]))
                  IN  IF ~score.ok THEN LoadRows(lines, i + 1, ms)
                      ELSE LoadRows(lines, i + 1, Put(ms, name, score.val))

\* load_csv: {} for a missing file; otherwise next(reader, None) drops the
\* first line and the loop reads the others
load_csv(f) ==
    IF f.kind = "absent" THEN EmptyDict
    ELSE LoadRows(f.lines, 2, EmptyDict)

(***************************************************************************)
(* Lab 2: statistics                                                       *)
(***************************************************************************)
\* sum(): starts from the int 0
RECURSIVE SumFrom(_, _, _)
SumFrom(xs, i, acc) ==
    IF i > Len(xs) THEN acc ELSE SumFrom(xs, i + 1, NumAdd(acc, xs[i]))

sum(xs) == SumFrom(xs, 1, PyInt(0))

\* calculate_average, for a non-empty dict
calculate_average(ms) == NumDiv(sum(Values(ms)), Len(ms))

\* sorted() on a short list, as CPython's list.sort does it with "<" alone:
\* the leading run (ascending, or strictly descending and then reversed),
\* then binary insertion of the other elements
RECURSIVE RunEnd(_, _, _)
RunEnd(a, i, desc) ==
    IF i > Len(a) THEN Len(a)
    ELSE IF Lt(a[i], a[i - 1]) = desc THEN RunEnd(a, i + 1, desc)
    ELSE i - 1

Reverse(a) == [i \in 1..Len(a) |-> a[Len(a) + 1 - i]]

RECURSIVE InsertionPoint(_, _, _, _)
InsertionPoint(a, pivot, l, r) ==
    IF l >= r THEN l
    ELSE LET p == l + ((r - l) \div 2)
         IN  IF Lt(pivot, a[p]) THEN InsertionPoint(a, pivot, l, p)
             ELSE InsertionPoint(a, pivot, p + 1, r)

RECURSIVE BinarySort(_, _)
BinarySort(a, start) ==
    IF start > Len(a) THEN a
    ELSE LET pivot == a[start]
             l == InsertionPoint(a, pivot, 1, start)
             b == SubSeq(a, 1, l - 1) \o <<pivot>> \o SubSeq(a, l, start - 1)
                    \o SubSeq(a, start + 1, Len(a))
         IN  BinarySort(b, start + 1)

sorted(a) ==
    IF Len(a) < 2 THEN a
    ELSE LET desc == Lt(a[2], a[1])
             run == RunEnd(a, 3, desc)
             b == IF desc THEN Reverse(SubSeq(a, 1, run)) \o SubSeq(a, run + 1, Len(a))
                  ELSE a
         IN  BinarySort(b, run + 1)

\* statistics.median: the middle element, or the mean of the two middle ones
median(xs) ==
    LET data == sorted(xs)
        n == Len(data)
        i == n \div 2
    IN  IF n % 2 = 1 THEN data[i + 1]
        ELSE NumDiv(NumAdd(data[i], data[i + 1]), 2)

\* calculate_median, for a non-empty dict
calculate_median(ms) == median(Values(ms))

\* max(marks, key=marks.get) replacing the kept key on ">=" as well
RECURSIVE MaxFromLast(_, _, _)
MaxFromLast(ms, i, best) ==
    IF i > Len(ms) THEN best
    ELSE MaxFromLast(ms, i + 1, IF Ge(ms[i][2], ms[best][2]) THEN i ELSE best)

\* max(marks, key=marks.get): the first key is kept until a later one is
\* strictly greater
RECURSIVE MaxFrom(_, _, _)
MaxFrom(ms, i, best) ==
    IF i > Len(ms) THEN best
    ELSE MaxFrom(ms, i + 1, IF Gt(ms[i][2], ms[best][2]) THEN i ELSE best)

find_max_score(ms) == ms[MaxFrom(ms, 2, 1)]

\* find_min_score written as a copy of find_max_score
FindMinUsesMax(ms) == ms[MaxFrom(ms, 2, 1)]

\* min(marks, key=marks.get)
RECURSIVE MinFrom(_, _, _)
MinFrom(ms, i, best) ==
    IF i > Len(ms) THEN best
    ELSE MinFrom(ms, i + 1, IF Lt(ms[i][2], ms[best][2]) THEN i ELSE best)

find_min_score(ms) == ms[MinFrom(ms, 2, 1)]

(***************************************************************************)
(* Lab 2: gs, pass/fail, export                                        *)
(***************************************************************************)
\* assign_grade with ">" where the code has ">="
AssignGradeStrict(score) ==
    IF Gt(score, PyInt(90)) THEN "A"
    ELSE IF Gt(score, PyInt(80)) THEN "B"
    ELSE IF Gt(score, PyInt(70)) THEN "C"
    ELSE IF Gt(score, PyInt(60)) THEN "D"
    ELSE "F"

assign_grade(score) ==
    IF Ge(score, PyInt(90)) THEN "A"
    ELSE IF Ge(score, PyInt(80)) THEN "B"
    ELSE IF Ge(score, PyInt(70)) THEN "C"
    ELSE IF Ge(score, PyInt(60)) THEN "D"
    ELSE "F"

GradeLabels == {"A", "B", "C", "D", "F"}

\* {name: assign_grade(score) for name, score in marks.items()}
GradesOf(ms) == [i \in 1..Len(ms) |-> <<ms[i][1], assign_grade(ms[i][2])>>]

\* grade_distribution
grade_distribution(gs) ==
    [g \in GradeLabels |-> Cardinality({i \in 1..Len(gs) : gs[i][2] = g})]

\* pass_fail_lists with the D threshold 60 in place of 40
PassFailAt60(ms) ==
    [passed |-> Keys(SelectSeq(ms, LAMBDA it : Ge(it[2], PyInt(60)))),
     failed |-> Keys(SelectSeq(ms, LAMBDA it : Lt(it[2], PyInt(60))))]

\* pass_fail_lists
pass_fail_lists(ms) ==
    [passed |-> Keys(SelectSeq(ms, LAMBDA it : Ge(it[2], PyInt(40)))),
     failed |-> Keys(SelectSeq(ms, LAMBDA it : Lt(it[2], PyInt(40))))]

\* csv.writer.writerow on fields without commas or quotes
RECURSIVE Join(_)
Join(fields) ==
    IF fields = <<>> THEN <<>>
    ELSE IF Len(fields) = 1 THEN fields[1]
    ELSE fields[1] \o <<",">> \o Join(Tail(fields))

ExportHeader == Join(<<<<"N", "a", "m", "e">>, <<"M", "a", "r", "k", "s">>,
                       <<"G", "r", "a", "d", "e">>>>)

\* export_to_csv: the header, then one line per item; grades[name] raises
\* KeyError for a name without a grade, after the lines before it were written
RECURSIVE ExportRows(_, _, _, _)
ExportRows(ms, gs, i, lines) ==
    IF i > Len(ms) THEN [lines |-> lines, raised |-> "none"]
    ELSE IF ~Has(gs, ms[i][1]) THEN [lines |-> lines, raised |-> "KeyError"]
    ELSE ExportRows(ms, gs, i + 1,
            Append(lines, Join(<<ms[i][1], NumText(ms[i][2]),
                                 <<Get(gs, ms[i][1])>>>>)))

\* export_to_csv writing the two columns load_csv reads
RECURSIVE ExportTwoColumns(_, _, _, _)
ExportTwoColumns(ms, gs, i, lines) ==
    IF i > Len(ms) THEN [lines |-> lines, raised |-> "none"]
    ELSE ExportTwoColumns(ms, gs, i + 1,
            Append(lines, Join(<<ms[i][1], NumText(ms[i][2])>>)))

ExportAsInput(ms, gs) ==
    ExportTwoColumns(ms, gs, 1, <<Join(<<<<"N", "a", "m", "e">>, <<"M", "a", "r", "k", "s">>>>)>>)

export_to_csv(ms, gs) == ExportRows(ms, gs, 1, <<ExportHeader>>)

(***************************************************************************)
(* Lab 2: analyze_and_report                                               *)
(***************************************************************************)
NoValue == [t |-> "none", n |-> 0, d |-> 1]

Stats == {"calculate_average", "calculate_median", "find_max_score", "find_min_score"}

\* lines 176-178: the message, and {} returned
NoDataReport ==
    [msg |-> "No student data found.", calls |-> {}, raised |-> "none",
     avg |-> NoValue, med |-> NoValue, max |-> <<>>, min |-> <<>>,
     grades |-> EmptyDict, dist |-> [g \in GradeLabels |-> 0],
     passed |-> <<>>, failed |-> <<>>]

\* lines 180-208; on an empty dict line 183 divides by len(marks) = 0
FullReport(m) ==
    IF Len(m) = 0
    THEN [NoDataReport EXCEPT !.msg = "ANALYSIS SUMMARY",
                              !.calls = {"calculate_average"},
                              !.raised = "ZeroDivisionError"]
    ELSE [msg |-> "ANALYSIS SUMMARY", calls |-> Stats, raised |-> "none",
          avg |-> calculate_average(m), med |-> calculate_median(m),
          max |-> find_max_score(m), min |-> find_min_score(m),
          grades |-> GradesOf(m), dist |-> grade_distribution(GradesOf(m)),
          passed |-> pass_fail_lists(m).passed, failed |-> pass_fail_lists(m).failed]

\* analyze_and_report without lines 176-178
AnalyzeWithoutEmptyCheck(m) == FullReport(m)

analyze_and_report(m) == IF m = EmptyDict THEN NoDataReport ELSE FullReport(m)

Alice == <<"A", "l", "i", "c", "e">>
Bob == <<"B", "o", "b">>
Charlie == <<"C", "h", "a", "r", "l", "i", "e">>
Diana == <<"D", "i", "a", "n", "a">>
Ethan == <<"E", "t", "h", "a", "n">>

sample_data ==
    <<<<Alice, PyInt(78)>>, <<Bob, PyInt(92)>>, <<Charlie, PyInt(65)>>,
      <<Diana, PyInt(55)>>, <<Ethan, PyInt(35)>>>>

(***************************************************************************)
(* Lab 2: main and manual_input                                            *)
(***************************************************************************)
NoLine == [choice |-> "", line |-> <<>>]

\* main assigning marks alone: grades keeps the value of the run before
AnalyzedKeepsGrades(m) ==
    /\ marks' = m
    /\ report' = analyze_and_report(m)
    /\ grades' = grades
    /\ gbRunning' = (report'.raised = "none")

\* marks = ...; grades = analyze_and_report(marks): an exception that
\* analyze_and_report raises ends main before grades is assigned
Analyzed(m) ==
    /\ marks' = m
    /\ report' = analyze_and_report(m)
    /\ grades' = IF report'.raised = "none" THEN report'.grades ELSE grades
    /\ gbRunning' = (report'.raised = "none")

\* choice "1": manual_input starts with an empty dict at the name prompt
ManualChoice ==
    /\ gbRunning /\ mpc = "menu" /\ UNCHANGED libVars
    /\ mpc' = "name"
    /\ miMarks' = EmptyDict
    /\ miName' = <<>>
    /\ gbLast' = [choice |-> "1", line |-> <<>>]
    /\ gbOut' = "Manual Data Entry Mode"
    /\ UNCHANGED <<marks, grades, csv, report, gbRunning>>

\* "Student Name: ": an empty name ends manual_input, and main analyzes
NameLine(line) ==
    /\ gbRunning /\ mpc = "name" /\ UNCHANGED libVars
    /\ gbLast' = [choice |-> "name", line |-> line]
    /\ IF Strip(line) = <<>>
       THEN /\ Analyzed(miMarks)
            /\ mpc' = "menu"
            /\ gbOut' = ""
            /\ UNCHANGED <<miMarks, miName>>
       ELSE /\ miName' = Strip(line)
            /\ mpc' = "mark"
            /\ gbOut' = ""
            /\ UNCHANGED <<marks, grades, report, gbRunning, miMarks>>
    /\ UNCHANGED csv

\* the range test of manual_input, line 57
OutOfRange(score) == Lt(score, PyInt(0)) \/ Gt(score, PyInt(100))

\* "Enter marks for ...": float(), the range test, then marks[name] = score;
\* both rejections continue at the name prompt
MarkLine(line) ==
    LET score == float(line)
    IN  /\ gbRunning /\ mpc = "mark" /\ UNCHANGED libVars
        /\ gbLast' = [choice |-> "mark", line |-> line]
        /\ mpc' = "name"
        /\ IF ~score.ok
           THEN gbOut' = "Invalid number. Try again." /\ UNCHANGED miMarks
           ELSE IF OutOfRange(score.val)
           THEN gbOut' = "Marks must be between 0 and 100." /\ UNCHANGED miMarks
           ELSE gbOut' = "" /\ miMarks' = Put(miMarks, miName, score.val)
        /\ UNCHANGED <<marks, grades, csv, report, gbRunning, miName>>

\* choice "2": load_csv(path), analyze_and_report
LoadChoice(exists) ==
    LET f == IF exists THEN csv ELSE NoFile
    IN  /\ gbRunning /\ mpc = "menu" /\ UNCHANGED libVars
        /\ gbLast' = [choice |-> "2", line |-> IF exists THEN <<"f">> ELSE <<"g">>]
        /\ Analyzed(load_csv(f))
        /\ gbOut' = IF f.kind = "absent" THEN "File does not exist!" ELSE ""
        /\ UNCHANGED <<csv, mpc, miMarks, miName>>

\* choice "3": export_to_csv unless marks is empty; a KeyError ends main
ExportChoice ==
    /\ gbRunning /\ mpc = "menu" /\ UNCHANGED libVars
    /\ gbLast' = [choice |-> "3", line |-> <<"f">>]
    /\ IF marks = EmptyDict
       THEN /\ gbOut' = "No data available. Run analysis first."
            /\ UNCHANGED <<csv, gbRunning>>
       ELSE LET w == export_to_csv(marks, grades)
            IN  /\ csv' = TextFile(w.lines)
                /\ gbRunning' = (w.raised = "none")
                /\ gbOut' = IF w.raised = "none" THEN "Results exported successfully"
                            ELSE w.raised
    /\ UNCHANGED <<marks, grades, report, mpc, miMarks, miName>>

\* choice "4": sample_data(), analyze_and_report
SampleChoice ==
    /\ gbRunning /\ mpc = "menu" /\ UNCHANGED libVars
    /\ gbLast' = [choice |-> "4", line |-> <<>>]
    /\ Analyzed(sample_data)
    /\ gbOut' = ""
    /\ UNCHANGED <<csv, mpc, miMarks, miName>>

\* choice "5": break
GbExitChoice ==
    /\ gbRunning /\ mpc = "menu" /\ UNCHANGED libVars
    /\ gbLast' = [choice |-> "5", line |-> <<>>]
    /\ gbRunning' = FALSE
    /\ gbOut' = "Exiting program... Goodbye!"
    /\ UNCHANGED <<marks, grades, csv, report, mpc, miMarks, miName>>

\* any other choice
GbInvalidChoice ==
    /\ gbRunning /\ mpc = "menu" /\ UNCHANGED libVars
    /\ gbLast' = [choice |-> "9", line |-> <<>>]
    /\ gbOut' = "Invalid choice. Try again."
    /\ UNCHANGED <<marks, grades, csv, report, gbRunning, mpc, miMarks, miName>>

\* marks = {}, grades = {} at the top of main
GbInitWith(f) ==
    /\ marks = EmptyDict
    /\ grades = EmptyDict
    /\ csv = f
    /\ report = [NoDataReport EXCEPT !.msg = ""]
    /\ gbRunning = TRUE
    /\ gbLast = NoLine
    /\ gbOut = ""
    /\ mpc = "menu"
    /\ miMarks = EmptyDict
    /\ miName = <<>>

\* ---- the CSV files and console lines the model draws from ----
HeaderLine == <<"N", "a", "m", "e", ",", "M", "a", "r", "k", "s">>

DataLines ==
    { <<"a", ",", "6", "0">>,                    \* a,60
      <<" ", "a", " ", ",", " ", "1", "0", "5", " ">>, \* " a , 105 "
      <<"b", ",", "5", "9", ".", "0">>,          \* b,59.0
      <<"b", ",", "-", "5">>,                    \* b,-5
      <<"c", ",", "n", "a", "n">>,               \* c,nan
      <<"c", ",", "8", "0">>,                    \* c,80
      <<"c", ",", "x">>,                         \* c,x
      <<"c">>,                                   \* one field
      <<"b", ",", "7", ",", "C">> }              \* three fields

LineSeqs(n) == UNION {[1..k -> DataLines] : k \in 0..n}

\* files with a header line, files without one, and no file
CsvFiles ==
    {NoFile} \cup {TextFile(<<HeaderLine>> \o ls) : ls \in LineSeqs(MaxRows)}
             \cup {TextFile(ls) : ls \in LineSeqs(MaxRows)}

NameLines == {<<>>, <<"a">>, <<" ", "b", " ">>}

MarkLines ==
    { <<"0">>, <<"1", "0", "0">>, <<"1", "0", "1">>, <<"-", "1">>,
      <<" ", "5", "9", ".", "0">>, <<"6", "0">>, <<"n", "a", "n">>, <<"x">>, <<>> }

(***************************************************************************)
(* Lab 3: Book                                                             *)
(***************************************************************************)
Isbns == {"111", "222"}
IsbnInputs == Isbns \cup {"999"}
Titles == {<<"A", "b">>}
TitleQueries == {<<"a">>, <<"B">>, <<"c">>}
Authors == {"au"}

\* Book.__init__: status defaults to "available"
Book(title, author, isbn, status) ==
    [title |-> title, author |-> author, isbn |-> isbn, status |-> status]

NewBook(title, author, isbn) == Book(title, author, isbn, "available")

\* Book.to_dict
ToDict(b) ==
    [title |-> b.title, author |-> b.author, isbn |-> b.isbn, status |-> b.status]

\* Book.issue without its status test
IssueSetsStatus(b) ==
    [ok |-> TRUE, book |-> [b EXCEPT !.status = "issued"]]

\* Book.issue: the pair (return value, the object afterwards)
issue(b) ==
    IF b.status = "available"
    THEN [ok |-> TRUE, book |-> [b EXCEPT !.status = "issued"]]
    ELSE [ok |-> FALSE, book |-> b]

\* Book.return_book
return_book(b) ==
    IF b.status = "issued"
    THEN [ok |-> TRUE, book |-> [b EXCEPT !.status = "available"]]
    ELSE [ok |-> FALSE, book |-> b]

(***************************************************************************)
(* Lab 3: LibraryInventory                                                 *)
(***************************************************************************)
Absent == [kind |-> "absent", data |-> <<>>]
Corrupt == [kind |-> "corrupt", data |-> <<>>]
Json(dicts) == [kind |-> "json", data |-> dicts]

\* [b.to_dict() for b in self.books]
Dicts(bs) == [i \in 1..Len(bs) |-> ToDict(bs[i])]

\* load_data: a missing file leaves [], a file json.load rejects is caught
\* and resets to [], a JSON array yields one Book per object
load_data(f) ==
    IF f.kind = "json"
    THEN [i \in 1..Len(f.data) |->
            Book(f.data[i].title, f.data[i].author, f.data[i].isbn, f.data[i].status)]
    ELSE <<>>

load_log(f) ==
    IF f.kind = "corrupt" THEN "Error loading file" ELSE "Book data loaded successfully."

\* save_data opening the file in append mode and dumping the last book only
SaveAppendsLast(f, bs, io) ==
    CASE io = "ok" -> Json(f.data \o (IF bs = <<>> THEN <<>> ELSE <<ToDict(bs[Len(bs)])>>))
      [] io = "open_fails" -> f
      [] io = "dump_fails" -> Corrupt

\* save_data: io is what the file system does with this write.
\*   "ok"         open and json.dump succeed: the file is the whole list
\*   "open_fails" open(..., "w") raises: the file is untouched
\*   "dump_fails" the write fails after open truncated the file
save_data(f, bs, io) ==
    CASE io = "ok" -> Json(Dicts(bs))
      [] io = "open_fails" -> f
      [] io = "dump_fails" -> Corrupt

save_log(io) ==
    IF io = "ok" THEN "Book data saved successfully." ELSE "Error saving file"

IoOutcomes == {"ok", "open_fails", "dump_fails"}

\* search_by_isbn: the position of the first book with that isbn, 0 for None
RECURSIVE FirstFrom(_, _, _)
FirstFrom(bs, isbn, i) ==
    IF i > Len(bs) THEN 0
    ELSE IF bs[i].isbn = isbn THEN i
    ELSE FirstFrom(bs, isbn, i + 1)

search_by_isbn(bs, isbn) == FirstFrom(bs, isbn, 1)

\* str.lower() on the letters of the model
LowerChar(c) == CASE c = "A" -> "a" [] c = "B" -> "b" [] c = "C" -> "c" [] OTHER -> c
Lower(s) == [i \in 1..Len(s) |-> LowerChar(s[i])]

\* the "in" operator on strings
Contains(s, t) ==
    \E k \in 0..(Len(s) - Len(t)) : \A j \in 1..Len(t) : s[k + j] = t[j]

\* search_by_title
search_by_title(bs, title) ==
    SelectSeq(bs, LAMBDA b : Contains(Lower(b.title), Lower(title)))

(***************************************************************************)
(* Lab 3: main                                                             *)
(***************************************************************************)
NoInput == [choice |-> "", isbn |-> "", io |-> "none"]

InitFiles ==
    {Absent, Corrupt} \cup
    {Json(Dicts(bs)) : bs \in UNION {[1..n -> {Book(t, a, i, s) :
            t \in Titles, a \in Authors, i \in Isbns, s \in {"available", "issued"}}]
        : n \in 0..MaxInitBooks}}

\* inventory = LibraryInventory(): books = [] and load_data()
LibInit ==
    /\ file \in InitFiles
    /\ books = load_data(file)
    /\ running = TRUE
    /\ last = NoInput
    /\ out = ""
    /\ lastLog = load_log(file)
    /\ saveCalled = FALSE
    /\ writeFailed = FALSE
    /\ GbInitWith(NoFile)

\* choice "1": Book(title, author, isbn), add_book (append, save_data)
AddBookChoice(title, author, isbn, io) ==
    /\ running /\ UNCHANGED gbVars
    /\ Len(books) < MaxBooks
    /\ books' = Append(books, NewBook(title, author, isbn))
    /\ file' = save_data(file, books', io)
    /\ lastLog' = save_log(io)
    /\ saveCalled' = TRUE
    /\ writeFailed' = (writeFailed \/ io # "ok")
    /\ last' = [choice |-> "1", isbn |-> isbn, io |-> io]
    /\ out' = "Book added successfully."
    /\ UNCHANGED running

\* choice "2": search_by_isbn, book.issue(), save_data only on success
IssueChoice(isbn, io) ==
    LET i == search_by_isbn(books, isbn)
        r == IF i = 0 THEN [ok |-> FALSE] ELSE issue(books[i])
    IN  /\ running /\ UNCHANGED gbVars
        /\ last' = [choice |-> "2", isbn |-> isbn, io |-> IF r.ok THEN io ELSE "none"]
        /\ IF i # 0 /\ r.ok
           THEN /\ books' = [books EXCEPT ![i] = r.book]
                /\ file' = save_data(file, books', io)
                /\ lastLog' = save_log(io)
                /\ saveCalled' = TRUE
                /\ writeFailed' = (writeFailed \/ io # "ok")
                /\ out' = "Book issued."
           ELSE /\ books' = IF i = 0 THEN books ELSE [books EXCEPT ![i] = r.book]
                /\ saveCalled' = FALSE
                /\ out' = "Book not found or already issued."
                /\ UNCHANGED <<file, lastLog, writeFailed>>
        /\ UNCHANGED running

\* choice "3": search_by_isbn, book.return_book(), save_data only on success
ReturnChoice(isbn, io) ==
    LET i == search_by_isbn(books, isbn)
        r == IF i = 0 THEN [ok |-> FALSE] ELSE return_book(books[i])
    IN  /\ running /\ UNCHANGED gbVars
        /\ last' = [choice |-> "3", isbn |-> isbn, io |-> IF r.ok THEN io ELSE "none"]
        /\ IF i # 0 /\ r.ok
           THEN /\ books' = [books EXCEPT ![i] = r.book]
                /\ file' = save_data(file, books', io)
                /\ lastLog' = save_log(io)
                /\ saveCalled' = TRUE
                /\ writeFailed' = (writeFailed \/ io # "ok")
                /\ out' = "Book returned."
           ELSE /\ books' = IF i = 0 THEN books ELSE [books EXCEPT ![i] = r.book]
                /\ saveCalled' = FALSE
                /\ out' = "Book not found or already available."
                /\ UNCHANGED <<file, lastLog, writeFailed>>
        /\ UNCHANGED running

\* choice "4": display_all, one line per book
ViewChoice ==
    /\ running /\ UNCHANGED gbVars
    /\ last' = [choice |-> "4", isbn |-> "", io |-> "none"]
    /\ saveCalled' = FALSE
    /\ out' = IF books = <<>> THEN "--- All Books ---" ELSE "book line"
    /\ UNCHANGED <<books, file, running, lastLog, writeFailed>>

\* choice "5": search_by_title
SearchChoice(title) ==
    /\ running /\ UNCHANGED gbVars
    /\ last' = [choice |-> "5", isbn |-> "", io |-> "none"]
    /\ saveCalled' = FALSE
    /\ out' = IF search_by_title(books, title) # <<>> THEN "book line" ELSE "No books found."
    /\ UNCHANGED <<books, file, running, lastLog, writeFailed>>

\* choice "6": break
ExitChoice ==
    /\ running /\ UNCHANGED gbVars
    /\ running' = FALSE
    /\ last' = [choice |-> "6", isbn |-> "", io |-> "none"]
    /\ saveCalled' = FALSE
    /\ out' = "Exiting..."
    /\ UNCHANGED <<books, file, lastLog, writeFailed>>

\* any other choice
InvalidChoice ==
    /\ running /\ UNCHANGED gbVars
    /\ last' = [choice |-> "7", isbn |-> "", io |-> "none"]
    /\ saveCalled' = FALSE
    /\ out' = "Invalid choice. Try again."
    /\ UNCHANGED <<books, file, running, lastLog, writeFailed>>

\* an input() inside the try raises (a line that does not decode, or end
\* of input) in choice 1, 2, 3 or 5: lines 159-161 print "Error:", log it,
\* and the loop goes on
FaultInHandler(choice) ==
    /\ running /\ UNCHANGED gbVars
    /\ last' = [choice |-> choice, isbn |-> "", io |-> "input_fails"]
    /\ saveCalled' = FALSE
    /\ out' = "Error:"
    /\ lastLog' = "Runtime error"
    /\ UNCHANGED <<books, file, running, writeFailed>>

\* the input() of menu(), line 107, raises: it is outside the try, so the
\* exception leaves main
MenuInputFails ==
    /\ running /\ UNCHANGED gbVars
    /\ running' = FALSE
    /\ last' = [choice |-> "menu", isbn |-> "", io |-> "input_fails"]
    /\ saveCalled' = FALSE
    /\ out' = "Traceback"
    /\ UNCHANGED <<books, file, lastLog, writeFailed>>

LibNext ==
    \/ \E t \in Titles, a \in Authors, i \in Isbns, io \in IoOutcomes :
            AddBookChoice(t, a, i, io)
    \/ \E i \in IsbnInputs, io \in IoOutcomes : IssueChoice(i, io)
    \/ \E i \in IsbnInputs, io \in IoOutcomes : ReturnChoice(i, io)
    \/ ViewChoice
    \/ \E t \in TitleQueries : SearchChoice(t)
    \/ ExitChoice
    \/ InvalidChoice
    \/ \E c \in {"1", "2", "3", "5"} : FaultInHandler(c)
    \/ MenuInputFails

SpecLib == LibInit /\ [][LibNext]_vars

(***************************************************************************)
(* Lab 2: specifications.  SpecCsv runs main on the choices that read and  *)
(* write the CSV file, from every file of CsvFiles; SpecManual runs main   *)
(* on manual entry, line by line.                                          *)
(***************************************************************************)
LibIdle ==
    /\ file = Absent
    /\ books = <<>>
    /\ running = FALSE
    /\ last = NoInput
    /\ out = ""
    /\ lastLog = ""
    /\ saveCalled = FALSE
    /\ writeFailed = FALSE

CsvInit == LibIdle /\ \E f \in CsvFiles : GbInitWith(f)

CsvNext ==
    \/ \E e \in BOOLEAN : LoadChoice(e)
    \/ ExportChoice
    \/ SampleChoice
    \/ GbExitChoice
    \/ GbInvalidChoice

SpecCsv == CsvInit /\ [][CsvNext]_vars

ManualInit == LibIdle /\ GbInitWith(NoFile)

ManualNext ==
    \/ ManualChoice
    \/ \E l \in NameLines : NameLine(l)
    \/ \E l \in MarkLines : MarkLine(l)
    \/ GbExitChoice
    \/ GbInvalidChoice

SpecManual == ManualInit /\ [][ManualNext]_vars

\* SpecMain runs the whole of main: every menu choice, with manual_input
\* line by line, from a few CSV files and a few marks lines.
MainFiles ==
    { NoFile,
      \* a,60 / b,105 / c,60: the minimum is shared by the first and the last
      TextFile(<<HeaderLine, <<"a", ",", "6", "0">>, <<"b", ",", "1", "0", "5">>,
                 <<"c", ",", "6", "0">>>>),
      \* b,105 / c,60 / " a , 105 ": the maximum is shared
      TextFile(<<HeaderLine, <<"b", ",", "1", "0", "5">>, <<"c", ",", "6", "0">>,
                 <<" ", "a", " ", ",", " ", "1", "0", "5", " ">>>>),
      \* c,nan / a,60 / b,60
      TextFile(<<HeaderLine, <<"c", ",", "n", "a", "n">>, <<"a", ",", "6", "0">>,
                 <<"b", ",", "6", "0">>>>) }

MainMarkLines == {<<"6", "0">>, <<"1", "0", "0">>, <<"n", "a", "n">>, <<"1", "0", "1">>, <<"x">>}

MainInit == LibIdle /\ \E f \in MainFiles : GbInitWith(f)

MainNext ==
    \/ ManualChoice
    \/ \E l \in NameLines : NameLine(l)
    \/ \E l \in MainMarkLines : MarkLine(l)
    \/ \E e \in BOOLEAN : LoadChoice(e)
    \/ ExportChoice
    \/ SampleChoice
    \/ GbExitChoice
    \/ GbInvalidChoice

SpecMain == MainInit /\ [][MainNext]_vars

(***************************************************************************)
(* Lab 3: properties                                                       *)
(***************************************************************************)
\* C1: issue() on a Book whose status is "issued" returns False and leaves
\* the status "issued"; an iteration of main that reads choice 2 and an ISBN
\* whose first match is an issued book does not call save_data and changes
\* neither the inventory nor the file.
IssueOfIssuedBookChangesNothing ==
    [][LET i == search_by_isbn(books, last'.isbn)
       IN  /\ \A k \in 1..Len(books) :
                 books[k].status = "issued" =>
                    /\ issue(books[k]).ok = FALSE
                    /\ issue(books[k]).book.status = "issued"
           /\ (running /\ last'.choice = "2" /\ i # 0 /\ books[i].status = "issued") =>
                    /\ books' = books
                    /\ file' = file
                    /\ saveCalled' = FALSE
                    /\ lastLog' = lastLog
                    /\ out' = "Book not found or already issued."]_vars

\* C1 witness: choice 2 was just answered with the ISBN of an issued book,
\* and the file on disk is still the one that was never written.
IssueOfIssuedBookHappened ==
    LET i == search_by_isbn(books, last.isbn)
    IN  /\ last.choice = "2"
        /\ i # 0
        /\ books[i].status = "issued"
        /\ out = "Book not found or already issued."
        /\ saveCalled = FALSE
        /\ file.kind # "json"

\* C2: while no write has failed, every operation that changes the
\* inventory leaves the file holding exactly the to_dict() list of the
\* whole inventory in order, and a JSON file on disk always equals that
\* list after each operation.
FileRewrittenInFullOnEveryMutation ==
    /\ [](~writeFailed => (file.kind = "json" => file.data = Dicts(books)))
    /\ [][(~writeFailed' /\ books' # books) =>
            (saveCalled' /\ file' = Json(Dicts(books')))]_vars

\* C2 witness: a book was returned in an inventory of at least two books,
\* one of them still issued, and the file is the whole list.
FileRewrittenAfterReturn ==
    /\ out = "Book returned."
    /\ ~writeFailed
    /\ Len(books) >= 2
    /\ \E k \in 1..Len(books) : books[k].status = "issued"
    /\ file = Json(Dicts(books))

\* C12 as stated: after a fault in a menu operation (an input() that raises,
\* or a save_data whose open or json.dump fails) the fault is in the log, an
\* error message is the line shown to the user and the loop is still
\* running; the loop has ended only if the last choice was 6.
RuntimeFaultIsShownAndLoopContinues ==
    /\ last.io \in {"open_fails", "dump_fails", "input_fails"} =>
          /\ running
          /\ lastLog \in {"Error saving file", "Runtime error"}
          /\ out = "Error:"
    /\ ~running => last.choice = "6"

(***************************************************************************)
(* Lab 2: properties                                                       *)
(***************************************************************************)
\* a line that load_csv reads as a record: two fields, the second a number
WellFormed(line) == Len(CsvRow(line)) = 2 /\ float(Strip(CsvRow(line)[2])).ok
RowName(line) == Strip(CsvRow(line)[1])
RowScore(line) == float(Strip(CsvRow(line)[2])).val

\* the two dicts hold the same (name, score) pairs in the same order; two
\* NaN scores count as the same
SamePairs(a, b) ==
    /\ Len(a) = Len(b)
    /\ \A i \in 1..Len(a) :
          /\ a[i][1] = b[i][1]
          /\ (NumEq(a[i][2], b[i][2]) \/ (IsNaN(a[i][2]) /\ IsNaN(b[i][2])))

JustExported == gbLast.choice = "3" /\ gbOut = "Results exported successfully"
JustLoaded == gbLast.choice = "2" /\ gbLast.line = <<"f">> /\ csv.kind = "text"

\* C3 as stated: after export_to_csv has written a non-empty batch, load_csv
\* on the written file yields the same (name, score) pairs.
ExportThenLoadRoundTrip ==
    JustExported => SamePairs(load_csv(csv), marks)

\* C3 as amended: the written file is the header and one three-field row per
\* record, in batch order, whose first two fields read back (strip, float) as
\* the record's name and score; load_csv on that file skips every row for its
\* field count and returns the empty batch.
ExportRowsHoldPairsButLoadSkipsThem ==
    JustExported =>
        /\ Len(csv.lines) = Len(marks) + 1
        /\ csv.lines[1] = ExportHeader
        /\ \A i \in 1..Len(marks) :
              LET row == CsvRow(csv.lines[i + 1])
              IN  /\ Len(row) = 3
                  /\ Strip(row[1]) = marks[i][1]
                  /\ float(Strip(row[2])).ok
                  /\ SamePairs(<<<<Strip(row[1]), float(Strip(row[2])).val>>>>, <<marks[i]>>)
                  /\ row[3] = <<Get(grades, marks[i][1])>>
        /\ load_csv(csv) = EmptyDict

\* C3 witness: a batch of two records, one of them NaN-free and loaded from a
\* file, has been exported and the file reloads as the empty batch.
ExportedTwoRecords ==
    /\ JustExported
    /\ Len(marks) >= 2
    /\ \E i \in 1..Len(marks) : marks[i][2].t = "float"
    /\ load_csv(csv) = EmptyDict

SampleGradesStated ==
    <<<<Alice, "C">>, <<Bob, "A">>, <<Charlie, "D">>, <<Diana, "D">>, <<Ethan, "F">>>>

SampleGradesComputed ==
    <<<<Alice, "C">>, <<Bob, "A">>, <<Charlie, "D">>, <<Diana, "F">>, <<Ethan, "F">>>>

SampleReportIs(gs) ==
    /\ marks = sample_data
    /\ report.avg.t = "float" /\ NumEq(report.avg, PyFloat(65))
    /\ NumEq(report.med, PyInt(65))
    /\ report.max = <<Bob, PyInt(92)>>
    /\ report.min = <<Ethan, PyInt(35)>>
    /\ report.grades = gs
    /\ grades = gs
    /\ report.passed = <<Alice, Bob, Charlie, Diana>>
    /\ report.failed = <<Ethan>>

\* C4 as stated: on the sample batch analyze_and_report computes mean 65.0,
\* median 65, max (Bob, 92), min (Ethan, 35), the pass list Alice, Bob,
\* Charlie, Diana, the fail list Ethan, and the grades C, A, D, D, F.
SampleReportAsStated == gbLast.choice = "4" => SampleReportIs(SampleGradesStated)

\* C4 as amended: the same, with Diana's 55 graded F.
SampleReportWithDianaF == gbLast.choice = "4" => SampleReportIs(SampleGradesComputed)

\* C4 witness: choice 4 has just been analyzed and Diana passed with an F.
SampleAnalyzed ==
    /\ gbLast.choice = "4"
    /\ report.msg = "ANALYSIS SUMMARY"
    /\ Get(grades, Diana) = "F"
    /\ \E i \in 1..Len(report.passed) : report.passed[i] = Diana

DistTotal(dist) == dist["A"] + dist["B"] + dist["C"] + dist["D"] + dist["F"]

\* the bands of assign_grade, with fBand the condition for "F"
GradedByBands(fBand(_)) ==
    marks # EmptyDict =>
        /\ Len(report.grades) = Len(marks)
        /\ \A i \in 1..Len(marks) :
              LET sc == marks[i][2]
                  g == report.grades[i][2]
              IN  /\ report.grades[i][1] = marks[i][1]
                  /\ g \in GradeLabels
                  /\ (g = "A") <=> Ge(sc, PyInt(90))
                  /\ (g = "B") <=> (Ge(sc, PyInt(80)) /\ Lt(sc, PyInt(90)))
                  /\ (g = "C") <=> (Ge(sc, PyInt(70)) /\ Lt(sc, PyInt(80)))
                  /\ (g = "D") <=> (Ge(sc, PyInt(60)) /\ Lt(sc, PyInt(70)))
                  /\ (g = "F") <=> fBand(sc)
        /\ DistTotal(report.dist) = Len(marks)

Below60(sc) == Lt(sc, PyInt(60))
Below60OrNaN(sc) == Lt(sc, PyInt(60)) \/ IsNaN(sc)

\* C5 as stated: every score of an analyzed batch has exactly the label of
\* its band, A iff >= 90, B iff in [80, 90), C iff in [70, 80), D iff in
\* [60, 70), F iff < 60; the five counts of grade_distribution sum to the
\* number of records.
GradeBandsAsStated == GradedByBands(Below60)

\* C5 as amended: the same, with F iff the score is below 60 or is NaN.
GradeBandsWithNaN == GradedByBands(Below60OrNaN)

\* C5 witness: an analyzed batch holds a score above 100, a score below 0
\* and a NaN.
OutOfRangeScoresGraded ==
    /\ report.msg = "ANALYSIS SUMMARY"
    /\ \E i, j, k \in 1..Len(marks) :
          /\ Gt(marks[i][2], PyInt(100))
          /\ Lt(marks[j][2], PyInt(0))
          /\ IsNaN(marks[k][2])

StatsOrdered ==
    /\ Le(report.min[2], report.med) /\ Le(report.med, report.max[2])
    /\ Le(report.min[2], report.avg) /\ Le(report.avg, report.max[2])

\* C6 as stated: for every non-empty batch the values analyze_and_report got
\* from find_min_score, calculate_median, calculate_average, find_max_score
\* satisfy min <= median <= max and min <= mean <= max.
MinMedianMeanMaxOrdered == marks # EmptyDict => StatsOrdered

\* C6 as amended: the same for every non-empty batch without a NaN score
\* whose scores are integer-valued.
OrderedWithoutNaN ==
    (marks # EmptyDict /\ \A i \in 1..Len(marks) : ~IsNaN(marks[i][2]) /\ marks[i][2].d = 1)
        => StatsOrdered

\* C6 witness: three records without NaN, the median strictly between the
\* minimum and the maximum, the mean different from the median.
ThreeScoresOrdered ==
    /\ Len(marks) = 3
    /\ \A i \in 1..Len(marks) : ~IsNaN(marks[i][2])
    /\ Lt(report.min[2], report.med) /\ Lt(report.med, report.max[2])
    /\ ~NumEq(report.avg, report.med)
    /\ StatsOrdered

WithoutLine(lines, k) == SubSeq(lines, 1, k - 1) \o SubSeq(lines, k + 1, Len(lines))

\* the data lines of the file with a field count other than 2
BadCountLines == {i \in 2..Len(csv.lines) : Len(CsvRow(csv.lines[i])) # 2}

\* C7: after load_csv on a file with a header line in which exactly one data
\* line has a wrong field count, the batch has an entry for every well-formed
\* line, before or after the malformed one, with the score of the last
\* well-formed line of that name, it has no other entry, and it is the batch
\* of the same file without the malformed line.
MalformedRowIsSkippedAlone ==
    (JustLoaded /\ Len(csv.lines) >= 1 /\ csv.lines[1] = HeaderLine
        /\ Cardinality(BadCountLines) = 1) =>
        /\ \A i \in 2..Len(csv.lines) :
              WellFormed(csv.lines[i]) =>
                 /\ Has(marks, RowName(csv.lines[i]))
                 /\ (\A j \in (i + 1)..Len(csv.lines) :
                        ~(WellFormed(csv.lines[j]) /\ RowName(csv.lines[j]) = RowName(csv.lines[i])))
                      => Get(marks, RowName(csv.lines[i])) = RowScore(csv.lines[i])
        /\ \A k \in 1..Len(marks) :
              \E i \in 2..Len(csv.lines) :
                 WellFormed(csv.lines[i]) /\ RowName(csv.lines[i]) = marks[k][1]
        /\ Len(marks) = Cardinality({RowName(csv.lines[i]) :
                            i \in {j \in 2..Len(csv.lines) : WellFormed(csv.lines[j])}})
        /\ marks = load_csv(TextFile(WithoutLine(csv.lines, CHOOSE i \in BadCountLines : TRUE)))

\* C7 witness: a header, a well-formed line, a line with a wrong field count,
\* a well-formed line of another name; both names were loaded.
LoadedAroundMalformedRow ==
    /\ JustLoaded
    /\ Len(csv.lines) = 4 /\ csv.lines[1] = HeaderLine
    /\ BadCountLines = {3}
    /\ WellFormed(csv.lines[2]) /\ WellFormed(csv.lines[4])
    /\ Len(marks) = 2
    /\ marks[2] = <<RowName(csv.lines[4]), RowScore(csv.lines[4])>>

\* C8 as stated: load_csv on a file without a header line (its first line is
\* a well-formed record) returns a batch with an entry for every well-formed
\* line of the file, the first line included.
FirstRowOfHeaderlessFileIsLoaded ==
    (JustLoaded /\ Len(csv.lines) >= 1 /\ WellFormed(csv.lines[1])) =>
        \A i \in 1..Len(csv.lines) :
            WellFormed(csv.lines[i]) => Has(marks, RowName(csv.lines[i]))

\* C9: when the batch main hands to analyze_and_report after load_csv is
\* empty (a missing file, or a file without a usable line), the report is the
\* no-data message, none of the four statistics was called, no exception
\* left analyze_and_report, and the grades returned and held are {}.
EmptyBatchReportsNoData ==
    (gbLast.choice = "2" /\ marks = EmptyDict) =>
        /\ report.msg = "No student data found."
        /\ report.calls = {}
        /\ report.raised = "none"
        /\ report.grades = EmptyDict
        /\ grades = EmptyDict
        /\ gbRunning

\* C9 witness: choice 2 named a missing file and the no-data message followed.
MissingFileReportedNoData ==
    /\ gbLast = [choice |-> "2", line |-> <<"g">>]
    /\ gbOut = "File does not exist!"
    /\ marks = EmptyDict
    /\ report.msg = "No student data found."
    /\ csv.kind = "text"

InRange(sc) == Ge(sc, PyInt(0)) /\ Le(sc, PyInt(100))

\* C10 as stated: every mark manual_input has stored, and every mark of the
\* batch it returned to main, lies in [0, 100].
ManualMarksInRange ==
    /\ \A i \in 1..Len(miMarks) : InRange(miMarks[i][2])
    /\ \A i \in 1..Len(marks) : InRange(marks[i][2])

\* v is the maximum (minimum) of the batch: no score compares above (below)
IsMaxOf(ms, v) == \A i \in 1..Len(ms) : Le(ms[i][2], v)
IsMinOf(ms, v) == \A i \in 1..Len(ms) : Ge(ms[i][2], v)

\* record i is the first of several records of the batch with the score v
FirstOfSeveral(ms, i) ==
    /\ \A k \in 1..(i - 1) : ~NumEq(ms[k][2], ms[i][2])
    /\ \E j \in (i + 1)..Len(ms) : NumEq(ms[j][2], ms[i][2])

\* C11: when several records of an analyzed batch share its maximum score,
\* find_max_score returned the first of them in the batch's order, and when
\* several share its minimum score, find_min_score returned the first of them.
TiesGoToFirstOccurrence ==
    marks # EmptyDict =>
        \A i \in 1..Len(marks) :
            /\ (IsMaxOf(marks, marks[i][2]) /\ FirstOfSeveral(marks, i))
                  => report.max = marks[i]
            /\ (IsMinOf(marks, marks[i][2]) /\ FirstOfSeveral(marks, i))
                  => report.min = marks[i]

\* C11 witness: three records, the first and the last share the maximum, the
\* second is the only minimum, and the first was returned as the maximum.
MaxSharedByFirstAndLast ==
    /\ Len(marks) = 3
    /\ NumEq(marks[1][2], marks[3][2])
    /\ Lt(marks[2][2], marks[1][2])
    /\ report.max = marks[1]
    /\ report.min = marks[2]

\* C13: in every state of main the held grades have the keys of the held
\* marks, in the same order, and grades[name] = assign_grade(marks[name]);
\* a step that reached export_to_csv found a grade for every name (no
\* KeyError) and main is still running.
GradesMatchMarks ==
    /\ Keys(grades) = Keys(marks)
    /\ \A i \in 1..Len(marks) :
          Has(grades, marks[i][1]) /\ Get(grades, marks[i][1]) = assign_grade(marks[i][2])
    /\ (gbLast.choice = "3" /\ marks # EmptyDict) =>
          /\ gbOut = "Results exported successfully"
          /\ gbRunning
          /\ Len(csv.lines) = Len(marks) + 1

\* C13 witness: a batch of two manual entries, one of them NaN, was exported
\* over a file that had been loaded before.
ManualBatchExported ==
    /\ JustExported
    /\ Len(marks) = 2
    /\ \E i \in 1..2 : IsNaN(marks[i][2])
    /\ marks[1][1] = <<"b">>
    /\ Len(csv.lines) = 3

====
